---- MODULE Spec2Model ----
(***************************************************************************)
(* A model of gasyncio: an asyncio event loop driven by the GLib main      *)
(* loop (src/src/gasyncio/gevents.py).                                     *)
(*                                                                         *)
(* Two parts share this module:                                            *)
(*   - GAsyncIOEventLoop: slave mode, the drain source (_giteration), the  *)
(*     GLib timers of call_at, close() and run_until_complete, with one    *)
(*     host-loop thread and one foreign thread calling                     *)
(*     call_soon_threadsafe;                                               *)
(*   - GAsyncIOSelector: register / unregister / modify / select and the   *)
(*     GLib watch callback.                                                *)
(* The GLib main context is modelled by the table of its attached sources. *)
(***************************************************************************)
EXTENDS Integers, FiniteSets, Sequences, TLC

\* ------------------------------------------------------------ bounds
\* GLib source ids that can be alive or referenced at the same time.
MaxIds == 4
\* Cap on the length of the ready queue (_ready).
MaxReady == 2
\* Number of TimerHandle objects call_at may create.
MaxTimers == 2
\* Number of file descriptors the selector is used with.
MaxFds == 2
\* Number of distinct data values (reader/writer handle pairs) per descriptor.
MaxData == 1
\* Number of file descriptors in the specification of hangups and select.
MaxHupFds == 1
MaxHandles == 2
\* Largest clock reading and deadline (seconds) call_at is used with.
MaxTime == 1

Ids == 1..MaxIds
Timers == 1..MaxTimers
Times == 0..MaxTime
\* Python's None / False for an id field (GLib ids are positive).
None == 0

Fds == 1..MaxFds
DataIds == 1..MaxData
HandleIds == 1..MaxHandles
WatchIds == 1..(MaxFds + 1)
ChannelIds == 1..(MaxFds + 1)

\* selectors.EVENT_READ, selectors.EVENT_WRITE
EVENT_READ == 1
EVENT_WRITE == 2
\* GLib.IOCondition.IN, .OUT, .HUP
IO_IN == 1
IO_OUT == 4
IO_HUP == 16

\* The event masks the scheduler registers: READ, WRITE or both.
Masks == {EVENT_READ, EVENT_WRITE, EVENT_READ + EVENT_WRITE}

NoKey == [fd |-> 0, events |-> 0, data |-> 0]
SelectorKey(fd, events, data) == [fd |-> fd, events |-> events, data |-> data]
NoWatch == [channel |-> 0, condition |-> 0, key |-> NoKey]

NoSrc == [cb |-> "none", timer |-> 0]
GiterateSrc == [cb |-> "giterate", timer |-> 0]
TimeoutSrc(t) == [cb |-> "timeout_cb", timer |-> t]

NewTimer ==
  [created |-> FALSE, scheduled |-> None, cancelled |-> FALSE, fired |-> FALSE,
   runs |-> 0, removes |-> 0, badRemove |-> FALSE, lateRemove |-> FALSE,
   ranCancelled |-> FALSE]

VARIABLES
  is_slave,        \* GAsyncIOEventLoop._is_slave
  running_loop,    \* asyncio's per-thread running-loop marker: "none" | "self"
  agen_hooks,      \* sys asyncgen hooks currently installed: "sys" | "loop"
  old_agen_hooks,  \* GAsyncIOEventLoop._old_agen_hooks
  closed,          \* BaseEventLoop._closed
  selector,        \* class of loop._selector, "None" once the loop is closed
  giteration,      \* GAsyncIOEventLoop._giteration (None or a GLib source id)
  gsources,        \* the GLib main context: source id -> attached callback
  ready,           \* len(loop._ready)
  hpc,             \* what the host-loop thread is executing
  ntodo,           \* _run_once: handles of this pass still to pop
  cur,             \* id of the source whose callback is being dispatched
  curTimer,        \* the TimerHandle passed to the running _timeout_cb (0: none)
  tpc,             \* position of the foreign thread in call_soon_threadsafe
  ruc,             \* run_until_complete: "no" | "waiting" | "done" | "quit"
  timers,          \* the TimerHandle objects created by call_at
  call,            \* the last API call made on the host thread and its outcome
  \* GAsyncIOSelector
  fd_to_key,       \* _BaseSelectorImpl._fd_to_key: fd -> SelectorKey (NoKey: absent)
  sources,         \* _sources: fd -> GLib watch id (None: absent)
  io_channels,     \* _io_channels: fd -> channel wrapper (None: absent)
  fileobj_preserve, \* _fileobj_preserve
  hups,            \* _hups
  watches,         \* the GLib main context: watch id -> attached watch
  sel_call,        \* the last selector call or watch callback and its outcome
  \* ThreadSelector
  ts_closed,       \* ThreadSelector._closed
  ts_thread,       \* _thread ("None") or where its thread is: "test" | "select" |
                   \* "post" | "returned" | "raised"
  ts_loop,         \* ThreadSelector._loop: "None" | "self"
  ts_wakers,       \* the socket pair _waker_r, _waker_w: "none" | "open" | "closed"
  ts_woken,        \* bytes sent to _waker_w and not yet received from _waker_r
  ts_keys,         \* descriptors registered by the loop's users
  ts_waker_reg,    \* _waker_r is registered (it is in _readers)
  ts_sel,          \* what the thread's current select.select call waits on
  ts_io,           \* a registered user descriptor is ready
  ts_posted,       \* what the queued _handle_select calls report: "waker", "io"
  ts_err,          \* the OSError the thread's select.select raised and the
                   \* exception that left _run_select
  ts_stale,        \* the thread entered select.select on a released socket
  ts_main,         \* the host thread in ThreadSelector.close: "idle" | "join"
  ts_call          \* the last ThreadSelector call and what it did

schedVars ==
  <<is_slave, running_loop, agen_hooks, old_agen_hooks, closed, selector,
    giteration, gsources, ready, hpc, ntodo, cur, curTimer, tpc, ruc, timers,
    call>>

selVars ==
  <<fd_to_key, sources, io_channels, fileobj_preserve, hups, watches, sel_call>>

tsVars ==
  <<ts_closed, ts_thread, ts_loop, ts_wakers, ts_woken, ts_keys, ts_waker_reg,
    ts_sel, ts_io, ts_posted, ts_err, ts_stale, ts_main, ts_call>>

vars == <<schedVars, selVars, tsVars>>

\* ------------------------------------------------------------ helpers

Min(a, b) == IF a < b THEN a ELSE b

Result(op, err) == [op |-> op, err |-> err]

\* The outcome of a selector call: the method, the exception raised ("none": it returned;
\* the two KeyErrors of the base class are told apart by their message),
\* the number of channel wrappers it created, and what it produced: the list
\* select returned, or the handles a watch callback ran.
SelResult(op, err, made, ret) == [op |-> op, err |-> err, made |-> made, ret |-> ret]

\* Ids GLib may not hand out again yet: attached, or still held in a field.
UsedIds ==
  {i \in Ids : gsources[i].cb # "none"}
    \cup {giteration, cur}
    \cup {timers[t].scheduled : t \in Timers}

HasFreshId == Ids \ UsedIds # {}

\* GLib.timeout_add returns a new id (ids are only ever compared for equality).
FreshId == CHOOSE i \in Ids : i \notin UsedIds /\ \A j \in Ids : j \notin UsedIds => i <= j

\* GLib.source_remove(id): detaches the source if it is attached.
SourceRemoved(srcs, id) ==
  IF id \in Ids THEN [srcs EXCEPT ![id] = NoSrc] ELSE srcs

DrainSources == {i \in Ids : gsources[i].cb = "giterate"}
TimerSources == {i \in Ids : gsources[i].cb = "timeout_cb"}

\* The host thread is in user code: between dispatches, inside a ready
\* callback run by _run_once, or inside a timer callback, and not waiting in
\* the join() of ThreadSelector.close.
HostCanCall == hpc \in {"idle", "handle", "timer_cb"} /\ ts_main = "idle"

\* The attribute read as if ThreadSelector defined it too.
SchedulePeriodicGiterateInThreadSelector ==
  selector \in {"NoWaitSelectSelector", "ThreadSelector"}

\* getattr(self._selector, '_schedule_periodic_giterate', False)
SchedulePeriodicGiterate == selector = "NoWaitSelectSelector"

\* GAsyncIOEventLoop.is_running
IsRunning == is_slave

\* ------------------------------------------------------------ Init

InitSched ==
  /\ is_slave = FALSE
  /\ running_loop = "none"
  /\ agen_hooks = "sys"
  /\ old_agen_hooks = "sys"
  /\ closed = FALSE
  /\ selector \in {"GAsyncIOSelector", "NoWaitSelectSelector", "ThreadSelector"}
  /\ giteration = None
  /\ gsources = [i \in Ids |-> NoSrc]
  /\ ready = 0
  /\ hpc = "idle"
  /\ ntodo = 0
  /\ cur = None
  /\ curTimer = 0
  /\ tpc = "idle"
  /\ ruc = "no"
  /\ timers = [t \in Timers |-> NewTimer]
  /\ call = Result("none", "none")

\* GAsyncIOSelector.__init__
InitSelector ==
  /\ fd_to_key = [fd \in Fds |-> NoKey]
  /\ sources = [fd \in Fds |-> None]
  /\ io_channels = [fd \in Fds |-> None]
  /\ fileobj_preserve = {}
  /\ hups = {}
  /\ watches = [w \in WatchIds |-> NoWatch]
  /\ sel_call = SelResult("none", "none", 0, {})

NoSelect == [waker |-> FALSE, fds |-> FALSE]
NoOSError == [errno |-> "none", raised |-> "none"]

TsResult(op, err, spawned, sent, joined, released) ==
  [op |-> op, err |-> err, spawned |-> spawned, sent |-> sent,
   joined |-> joined, released |-> released]

NoTsCall == TsResult("none", "none", FALSE, FALSE, FALSE, FALSE)

InitThreadSelector ==
  /\ ts_closed = FALSE
  /\ ts_thread = "None"
  /\ ts_loop = "None"
  /\ ts_wakers = "none"
  /\ ts_woken = FALSE
  /\ ts_keys = {}
  /\ ts_waker_reg = FALSE
  /\ ts_sel = NoSelect
  /\ ts_io = FALSE
  /\ ts_posted = {}
  /\ ts_err = NoOSError
  /\ ts_stale = FALSE
  /\ ts_main = "idle"
  /\ ts_call = NoTsCall

Init == InitSched /\ InitSelector /\ InitThreadSelector

\* ------------------------------------------------------------ slave mode

\* start_slave_loop without its _check_running call.
StartSlaveLoopNoRunningCheck ==
  /\ HostCanCall
  /\ IF closed
       THEN /\ call' = Result("start_slave_loop", "RuntimeError")
            /\ UNCHANGED <<is_slave, running_loop, agen_hooks, old_agen_hooks>>
       ELSE /\ old_agen_hooks' = agen_hooks
            /\ agen_hooks' = "loop"
            /\ running_loop' = "self"
            /\ is_slave' = TRUE
            /\ call' = Result("start_slave_loop", "none")
  /\ UNCHANGED <<closed, selector, giteration, gsources, ready, hpc, ntodo,
                 cur, curTimer, tpc, ruc, timers, selVars, tsVars>>

StartSlaveLoop ==
  /\ HostCanCall
  /\ IF closed
       THEN /\ call' = Result("start_slave_loop", "RuntimeError")
            /\ UNCHANGED <<is_slave, running_loop, agen_hooks, old_agen_hooks>>
       ELSE IF IsRunning \/ running_loop # "none"
         THEN /\ call' = Result("start_slave_loop", "RuntimeError")
              /\ UNCHANGED <<is_slave, running_loop, agen_hooks, old_agen_hooks>>
         ELSE /\ old_agen_hooks' = agen_hooks
              /\ agen_hooks' = "loop"
              /\ running_loop' = "self"
              /\ is_slave' = TRUE
              /\ call' = Result("start_slave_loop", "none")
  /\ UNCHANGED <<closed, selector, giteration, gsources, ready, hpc, ntodo,
                 cur, curTimer, tpc, ruc, timers, selVars, tsVars>>

StopSlaveLoop ==
  /\ HostCanCall
  /\ IF ~is_slave
       THEN /\ call' = Result("stop_slave_loop", "RuntimeError")
            /\ UNCHANGED <<is_slave, running_loop, agen_hooks>>
       ELSE /\ is_slave' = FALSE
            /\ running_loop' = "none"
            /\ agen_hooks' = old_agen_hooks
            /\ call' = Result("stop_slave_loop", "none")
  /\ UNCHANGED <<old_agen_hooks, closed, selector, giteration, gsources, ready,
                 hpc, ntodo, cur, curTimer, tpc, ruc, timers, selVars, tsVars>>

\* ------------------------------------------------------------ drain source

\* _schedule_giteration, the whole critical section of self._lock.
ScheduleGiteration ==
  IF giteration = None
    THEN /\ giteration' = FreshId
         /\ gsources' = [gsources EXCEPT ![FreshId] = GiterateSrc]
    ELSE UNCHANGED <<giteration, gsources>>

\* loop.call_soon(cb) on the host thread: _check_closed, then _call_soon.
CallSoon ==
  /\ HostCanCall
  /\ IF closed
       THEN /\ call' = Result("call_soon", "RuntimeError")
            /\ UNCHANGED <<ready, giteration, gsources>>
       ELSE /\ ready < MaxReady
            /\ giteration = None => HasFreshId
            /\ ready' = ready + 1
            /\ ScheduleGiteration
            /\ call' = Result("call_soon", "none")
  /\ UNCHANGED <<is_slave, running_loop, agen_hooks, old_agen_hooks, closed,
                 selector, hpc, ntodo, cur, curTimer, tpc, ruc, timers,
                 selVars, tsVars>>

\* loop.call_soon_threadsafe(cb) on the foreign thread, statement by statement:
\* _check_closed
ThreadCheckClosed ==
  /\ tpc = "idle"
  /\ ~closed
  /\ tpc' = "checked"
  /\ UNCHANGED <<is_slave, running_loop, agen_hooks, old_agen_hooks, closed,
                 selector, giteration, gsources, ready, hpc, ntodo, cur,
                 curTimer, ruc, timers, call, selVars, tsVars>>

\* super()._call_soon: the handle is appended to _ready
ThreadAppend ==
  /\ tpc = "checked"
  /\ ready < MaxReady
  /\ ready' = ready + 1
  /\ tpc' = "appended"
  /\ UNCHANGED <<is_slave, running_loop, agen_hooks, old_agen_hooks, closed,
                 selector, giteration, gsources, hpc, ntodo, cur, curTimer,
                 ruc, timers, call, selVars, tsVars>>

\* self._schedule_giteration()
ThreadSchedule ==
  /\ tpc = "appended"
  /\ giteration = None => HasFreshId
  /\ ScheduleGiteration
  /\ tpc' = "idle"
  /\ UNCHANGED <<is_slave, running_loop, agen_hooks, old_agen_hooks, closed,
                 selector, ready, hpc, ntodo, cur, curTimer, ruc, timers, call,
                 selVars, tsVars>>

\* How the dispatch of source cur ends when its callback returns False or
\* raises: GLib destroys the source.
Detached(srcs) == SourceRemoved(srcs, cur)

\* _giterate up to the read of len(_ready) is GiterateDispatch, defined after
\* the selector it polls.

\* _run_once: handle = self._ready.popleft(); handle._run() starts. The queue
\* is empty here only if close() cleared it during this pass: IndexError.
RunOncePop ==
  /\ hpc = "run_once"
  /\ ntodo > 0
  /\ IF ready = 0
       THEN /\ gsources' = Detached(gsources)
            /\ hpc' = "idle"
            /\ ntodo' = 0
            /\ cur' = None
            /\ UNCHANGED ready
       ELSE /\ ready' = ready - 1
            /\ ntodo' = ntodo - 1
            /\ hpc' = "handle"
            /\ UNCHANGED <<gsources, cur>>
  /\ UNCHANGED <<is_slave, running_loop, agen_hooks, old_agen_hooks, closed,
                 selector, giteration, curTimer, tpc, ruc, timers, call,
                 selVars, tsVars>>

\* handle._run() returns.
HandleReturn ==
  /\ hpc = "handle"
  /\ hpc' = "run_once"
  /\ UNCHANGED <<is_slave, running_loop, agen_hooks, old_agen_hooks, closed,
                 selector, giteration, gsources, ready, ntodo, cur, curTimer,
                 tpc, ruc, timers, call, selVars, tsVars>>

\* _giterate after _run_once: "if self._ready: return True" keeps the source.
GiterateTest ==
  /\ hpc = "run_once"
  /\ ntodo = 0
  /\ IF ready > 0
       THEN hpc' = "idle" /\ cur' = None
       ELSE hpc' = "tested" /\ UNCHANGED cur
  /\ UNCHANGED <<is_slave, running_loop, agen_hooks, old_agen_hooks, closed,
                 selector, giteration, gsources, ready, ntodo, curTimer, tpc,
                 ruc, timers, call, selVars, tsVars>>

\* _giterate, the critical section and "return False".
GiterateFinish ==
  /\ hpc = "tested"
  /\ IF SchedulePeriodicGiterate
       THEN /\ HasFreshId
            /\ giteration' = FreshId
            /\ gsources' = [Detached(gsources) EXCEPT ![FreshId] = GiterateSrc]
       ELSE /\ giteration' = None
            /\ gsources' = Detached(gsources)
  /\ hpc' = "idle"
  /\ cur' = None
  /\ UNCHANGED <<is_slave, running_loop, agen_hooks, old_agen_hooks, closed,
                 selector, ready, ntodo, curTimer, tpc, ruc, timers, call,
                 selVars, tsVars>>

\* GAsyncIOEventLoop.close is Close, defined after the ThreadSelector it closes.

\* ------------------------------------------------------------ timers

\* call_at that passes (when - self.time()) * 1000 on as it is.
CallAtDelayUnclamped(when, now) == (when - now) * 1000

\* call_at: the delay handed to GLib.timeout_add for deadline "when" when
\* self.time() returns "now".
CallAtDelay(when, now) ==
  LET delay == (when - now) * 1000 IN
    IF delay < 0 THEN 0 ELSE delay

\* The record of a call_at that returned: its deadline, the clock it read and
\* the delay it gave GLib.timeout_add.
CallAtResult(when, now) ==
  [op |-> "call_at", err |-> "none", when |-> when, now |-> now,
   delay |-> CallAtDelay(when, now)]

\* GAsyncIOEventLoop.call_at creating TimerHandle t (handles are created in
\* order, each once).
CallAt(t) ==
  /\ HostCanCall
  /\ ~timers[t].created
  /\ \A u \in Timers : u < t => timers[u].created
  /\ IF closed
       THEN /\ call' = Result("call_at", "RuntimeError")
            /\ UNCHANGED <<timers, gsources>>
       ELSE /\ HasFreshId
            /\ timers' = [timers EXCEPT ![t].created = TRUE,
                                        ![t].scheduled = FreshId]
            /\ gsources' = [gsources EXCEPT ![FreshId] = TimeoutSrc(t)]
            /\ \E when \in Times, now \in Times : call' = CallAtResult(when, now)
  /\ UNCHANGED <<is_slave, running_loop, agen_hooks, old_agen_hooks, closed,
                 selector, giteration, ready, hpc, ntodo, cur, curTimer, tpc,
                 ruc, selVars, tsVars>>

\* _timer_handle_cancelled: "if timer._scheduled:" decides whether
\* GLib.source_remove is called.
TimerSourceRemoveCalled(tm) == tm.scheduled # None

\* GAsyncIOEventLoop._timer_handle_cancelled(timer): the timer record after it
\* (removes, badRemove and lateRemove record the source_remove call it made:
\* how many, with the id unset, after _timeout_cb had completed) and the
\* source table after it.
TimerHandleCancelledTimer(tm) ==
  IF TimerSourceRemoveCalled(tm)
    THEN [tm EXCEPT !.scheduled = None,
                    !.removes = Min(tm.removes + 1, 2),
                    !.badRemove = tm.badRemove \/ tm.scheduled = None,
                    !.lateRemove = tm.lateRemove \/ tm.fired]
    ELSE [tm EXCEPT !.scheduled = None]

TimerHandleCancelledSources(tm, srcs) ==
  IF TimerSourceRemoveCalled(tm) THEN SourceRemoved(srcs, tm.scheduled) ELSE srcs

\* TimerHandle.cancel() on the host thread: calls _timer_handle_cancelled
\* unless the handle is already cancelled, then marks it cancelled.
CancelTimer(t) ==
  /\ HostCanCall
  /\ timers[t].created
  /\ IF ~timers[t].cancelled
       THEN /\ timers' = [timers EXCEPT
                            ![t] = [TimerHandleCancelledTimer(timers[t])
                                      EXCEPT !.cancelled = TRUE]]
            /\ gsources' = TimerHandleCancelledSources(timers[t], gsources)
       ELSE UNCHANGED <<timers, gsources>>
  /\ call' = Result("cancel", "none")
  /\ UNCHANGED <<is_slave, running_loop, agen_hooks, old_agen_hooks, closed,
                 selector, giteration, ready, hpc, ntodo, cur, curTimer, tpc,
                 ruc, selVars, tsVars>>

\* GLib dispatches the timer source s: _timeout_cb(timer) starts timer._run().
TimeoutCbDispatch(s) ==
  /\ hpc = "idle"
  /\ gsources[s].cb = "timeout_cb"
  /\ LET t == gsources[s].timer IN
       timers' = [timers EXCEPT
                    ![t].runs = Min(timers[t].runs + 1, 2),
                    ![t].ranCancelled = timers[t].ranCancelled \/ timers[t].cancelled]
  /\ hpc' = "timer_cb"
  /\ cur' = s
  /\ curTimer' = gsources[s].timer
  /\ UNCHANGED <<is_slave, running_loop, agen_hooks, old_agen_hooks, closed,
                 selector, giteration, gsources, ready, ntodo, tpc, ruc, call,
                 selVars, tsVars>>

\* _timeout_cb that forgets to clear timer._scheduled.
TimeoutCbReturnKeepsId ==
  /\ hpc = "timer_cb"
  /\ timers' = [timers EXCEPT ![curTimer].fired = TRUE]
  /\ gsources' = Detached(gsources)
  /\ hpc' = "idle"
  /\ cur' = None
  /\ curTimer' = 0
  /\ UNCHANGED <<is_slave, running_loop, agen_hooks, old_agen_hooks, closed,
                 selector, giteration, ready, ntodo, tpc, ruc, call, selVars,
                 tsVars>>

\* _timeout_cb after timer._run(): timer._scheduled = False; return False.
TimeoutCbReturn ==
  /\ hpc = "timer_cb"
  /\ timers' = [timers EXCEPT ![curTimer].scheduled = None,
                              ![curTimer].fired = TRUE]
  /\ gsources' = Detached(gsources)
  /\ hpc' = "idle"
  /\ cur' = None
  /\ curTimer' = 0
  /\ UNCHANGED <<is_slave, running_loop, agen_hooks, old_agen_hooks, closed,
                 selector, giteration, ready, ntodo, tpc, ruc, call, selVars,
                 tsVars>>

\* ------------------------------------------------------------ run_until_complete

\* run_until_complete(coro) up to gloop.run(): ensure_future creates the task
\* (create_task checks that the loop is open and call_soons the first step),
\* then the nested GLib main loop runs.
RunUntilComplete ==
  /\ hpc = "idle"
  /\ ruc = "no"
  /\ IF closed
       THEN /\ call' = Result("run_until_complete", "RuntimeError")
            /\ UNCHANGED <<ready, giteration, gsources, ruc>>
       ELSE /\ ready < MaxReady
            /\ giteration = None => HasFreshId
            /\ ready' = ready + 1
            /\ ScheduleGiteration
            /\ ruc' = "waiting"
            /\ call' = Result("run_until_complete", "none")
  /\ UNCHANGED <<is_slave, running_loop, agen_hooks, old_agen_hooks, closed,
                 selector, hpc, ntodo, cur, curTimer, tpc, timers, selVars,
                 tsVars>>

\* A ready callback finishes the task: its done callbacks are call_soon'ed.
TaskDone ==
  /\ hpc = "handle"
  /\ ruc = "waiting"
  /\ ~closed
  /\ ready < MaxReady
  /\ giteration = None => HasFreshId
  /\ ready' = ready + 1
  /\ ScheduleGiteration
  /\ ruc' = "done"
  /\ UNCHANGED <<is_slave, running_loop, agen_hooks, old_agen_hooks, closed,
                 selector, hpc, ntodo, cur, curTimer, tpc, timers, call,
                 selVars, tsVars>>

\* A ready callback is _run_until_complete_cb: gloop.quit().
RunUntilCompleteCb ==
  /\ hpc = "handle"
  /\ ruc = "done"
  /\ ruc' = "quit"
  /\ UNCHANGED <<is_slave, running_loop, agen_hooks, old_agen_hooks, closed,
                 selector, giteration, gsources, ready, hpc, ntodo, cur,
                 curTimer, tpc, timers, call, selVars, tsVars>>

\* gloop.run() returns once the dispatch that called quit() is over;
\* run_until_complete returns the result.
RunUntilCompleteReturn ==
  /\ hpc = "idle"
  /\ ruc = "quit"
  /\ ruc' = "no"
  /\ UNCHANGED <<is_slave, running_loop, agen_hooks, old_agen_hooks, closed,
                 selector, giteration, gsources, ready, hpc, ntodo, cur,
                 curTimer, tpc, timers, call, selVars, tsVars>>

\* ------------------------------------------------------------ GAsyncIOSelector

\* Python's & and | on the small masks used here.
HasBit(x, b) == (x \div b) % 2 = 1
AndBit(x, y, b) == IF HasBit(x, b) /\ HasBit(y, b) THEN b ELSE 0
OrBit(x, y, b) == IF HasBit(x, b) \/ HasBit(y, b) THEN b ELSE 0
BitAnd(x, y) ==
  AndBit(x, y, 1) + AndBit(x, y, 2) + AndBit(x, y, 4) + AndBit(x, y, 8) + AndBit(x, y, 16)
BitOr(x, y) ==
  OrBit(x, y, 1) + OrBit(x, y, 2) + OrBit(x, y, 4) + OrBit(x, y, 8) + OrBit(x, y, 16)

\* GAsyncIOSelector._events_to_io_condition
EventsToIoCondition(events) ==
  BitOr(IF BitAnd(events, EVENT_READ) # 0 THEN IO_IN ELSE 0,
        IF BitAnd(events, EVENT_WRITE) # 0 THEN IO_OUT ELSE 0)

\* GAsyncIOSelector._io_condition_to_events
IoConditionToEvents(condition) ==
  BitOr(IF BitAnd(condition, IO_IN) # 0 THEN EVENT_READ ELSE 0,
        IF BitAnd(condition, IO_OUT) # 0 THEN EVENT_WRITE ELSE 0)

\* The selector's dictionaries and GLib's watch table as one value, so that
\* modify can run unregister and register one after the other; err is the
\* exception the call raised ("none": it returned), made the number of channel
\* wrappers the call created.
SelState ==
  [fd_to_key |-> fd_to_key, sources |-> sources, io_channels |-> io_channels,
   watches |-> watches, err |-> "none", made |-> 0]

Raised(st, e) == [st EXCEPT !.err = e]

\* GLib.io_add_watch returns a new id: any id that is neither attached nor
\* still held in _sources (ids are only compared for equality; the choice
\* made here is the descriptor's own number when that is free).
UsedWatchIds(st) ==
  {w \in WatchIds : st.watches[w] # NoWatch} \cup {st.sources[fd] : fd \in Fds}
HasFreshWatch(st) == WatchIds \ UsedWatchIds(st) # {}
FreshWatch(st, fd) ==
  IF fd \notin UsedWatchIds(st)
    THEN fd
    ELSE CHOOSE w \in WatchIds :
           w \notin UsedWatchIds(st) /\ \A v \in WatchIds : v \notin UsedWatchIds(st) => w <= v

\* _GLib_IOChannel_new_socket returns a new object: one that is neither in
\* _io_channels nor held by an attached watch (chosen like a watch id).
UsedChannels(st) ==
  {st.io_channels[fd] : fd \in Fds} \cup {st.watches[w].channel : w \in WatchIds}
HasFreshChannel(st) == ChannelIds \ UsedChannels(st) # {}
FreshChannel(st, fd) ==
  IF fd \notin UsedChannels(st)
    THEN fd
    ELSE CHOOSE c \in ChannelIds :
           c \notin UsedChannels(st) /\ \A d \in ChannelIds : d \notin UsedChannels(st) => c <= d

\* selectors._BaseSelectorImpl.register, as called by "super().register":
\* rejects an invalid mask and a descriptor that already has a key.
BaseRegister(st, fd, events, data) ==
  IF events = 0 \/ BitAnd(events, EVENT_READ + EVENT_WRITE) # events
    THEN Raised(st, "ValueError")
    ELSE IF st.fd_to_key[fd] # NoKey
      THEN Raised(st, "KeyError: already registered")
      ELSE [st EXCEPT !.fd_to_key[fd] = SelectorKey(fd, events, data)]

\* The watch register installs: the channel, the requested conditions plus
\* hangup, and the registration key as user data.
NewWatch(channel, events, key) ==
  [channel |-> channel,
   condition |-> BitOr(EventsToIoCondition(events), IO_HUP),
   key |-> key]

\* GAsyncIOSelector.register without any duplicate check: the registration is
\* overwritten and a second watch is added.
RegisterOnNoDuplicateCheck(st, fd, events, data) ==
  LET key == SelectorKey(fd, events, data)
      fresh == st.io_channels[fd] = None
      io_channel == IF fresh THEN FreshChannel(st, fd) ELSE st.io_channels[fd]
      w == FreshWatch(st, fd)
  IN [st EXCEPT !.fd_to_key[fd] = key,
                !.io_channels[fd] = io_channel,
                !.made = IF fresh THEN st.made + 1 ELSE st.made,
                !.watches[w] = NewWatch(io_channel, events, key),
                !.sources[fd] = w]

\* GAsyncIOSelector.register
RegisterOn(st, fd, events, data) ==
  LET b == BaseRegister(st, fd, events, data) IN
    IF b.err # "none"
      THEN b
      ELSE IF b.sources[fd] # None
        THEN Raised(b, "KeyError")
        ELSE
          LET fresh == b.io_channels[fd] = None
              io_channel == IF fresh THEN FreshChannel(b, fd) ELSE b.io_channels[fd]
              w == FreshWatch(b, fd)
          IN [b EXCEPT !.io_channels[fd] = io_channel,
                       !.made = IF fresh THEN b.made + 1 ELSE b.made,
                       !.watches[w] = NewWatch(io_channel, events, b.fd_to_key[fd]),
                       !.sources[fd] = w]

\* GAsyncIOSelector.unregister that ignores _fileobj_preserve.
UnregisterOnIgnoringPreserve(st, fd, preserve) ==
  IF st.fd_to_key[fd] = NoKey \/ st.sources[fd] = None \/ st.io_channels[fd] = None
    THEN Raised(st, "KeyError")
    ELSE [st EXCEPT !.fd_to_key[fd] = NoKey,
                    !.watches[st.sources[fd]] = NoWatch,
                    !.sources[fd] = None,
                    !.io_channels[fd] = None]

\* GAsyncIOSelector.unregister, with the preserve set it reads.
UnregisterOn(st, fd, preserve) ==
  IF st.fd_to_key[fd] = NoKey
    THEN Raised(st, "KeyError: not registered")
    ELSE
      LET popped == [st EXCEPT !.fd_to_key[fd] = NoKey] IN
        IF popped.sources[fd] = None
          THEN Raised(popped, "KeyError")
          ELSE
            LET removed == [popped EXCEPT !.watches[popped.sources[fd]] = NoWatch,
                                          !.sources[fd] = None]
            IN IF fd \in preserve
                 THEN removed
                 ELSE IF removed.io_channels[fd] = None
                   THEN Raised(removed, "KeyError")
                   ELSE [removed EXCEPT !.io_channels[fd] = None]

\* selectors._BaseSelectorImpl.modify, as called by "super().modify": a changed
\* mask is unregister followed by register (the selector's own methods), a
\* changed data alone replaces the key in _fd_to_key.
BaseModify(st, fd, events, data, preserve) ==
  IF st.fd_to_key[fd] = NoKey
    THEN Raised(st, "KeyError: not registered")
    ELSE IF events # st.fd_to_key[fd].events
      THEN LET u == UnregisterOn(st, fd, preserve) IN
             IF u.err # "none" THEN u ELSE RegisterOn(u, fd, events, data)
      ELSE IF data # st.fd_to_key[fd].data
        THEN [st EXCEPT !.fd_to_key[fd].data = data]
        ELSE st

\* What a call leaves in the selector's fields.
Stored(st, op) ==
  /\ fd_to_key' = st.fd_to_key
  /\ sources' = st.sources
  /\ io_channels' = st.io_channels
  /\ watches' = st.watches
  /\ sel_call' = SelResult(op, st.err, st.made, {})

\* selector.register(fd, events, data)
Register(fd, events, data) ==
  /\ HasFreshWatch(SelState)
  /\ HasFreshChannel(SelState)
  /\ Stored(RegisterOn(SelState, fd, events, data), "register")
  /\ UNCHANGED <<schedVars, fileobj_preserve, hups, tsVars>>

\* selector.unregister(fd)
Unregister(fd) ==
  /\ Stored(UnregisterOn(SelState, fd, fileobj_preserve), "unregister")
  /\ UNCHANGED <<schedVars, fileobj_preserve, hups, tsVars>>

\* GAsyncIOSelector.modify up to the return of super().modify: the descriptor
\* is in _fileobj_preserve while super().modify runs.
ModifyOn(fd, events, data) ==
  BaseModify(SelState, fd, events, data, fileobj_preserve \cup {fd})

\* GAsyncIOSelector.modify: the descriptor is marked, super().modify runs, and
\* the mark is removed if super().modify returned.
Modify(fd, events, data) ==
  /\ HasFreshWatch(SelState)
  /\ HasFreshChannel(SelState)
  /\ LET st == ModifyOn(fd, events, data) IN
       /\ Stored(st, "modify")
       /\ fileobj_preserve' = IF st.err = "none"
                                THEN (fileobj_preserve \cup {fd}) \ {fd}
                                ELSE fileobj_preserve \cup {fd}
  /\ UNCHANGED <<schedVars, hups, tsVars>>

\* The conditions GLib can report for a watch: any non-empty part of what the
\* watch asked for.
FiredConditions(w) ==
  {c \in 1..(IO_IN + IO_OUT + IO_HUP) : BitAnd(c, watches[w].condition) = c}

\* GAsyncIOSelector._channel_watch_cb(channel, condition, key)
ChannelWatchCb(w, condition) ==
  /\ watches[w] # NoWatch
  /\ LET key == watches[w].key
         ran == (IF BitAnd(condition, IO_IN) # 0
                   THEN {[fd |-> key.fd, data |-> key.data, handle |-> "handle_in"]}
                   ELSE {})
                  \cup (IF BitAnd(condition, IO_OUT) # 0
                          THEN {[fd |-> key.fd, data |-> key.data, handle |-> "handle_out"]}
                          ELSE {})
     IN /\ sel_call' = SelResult("channel_watch_cb", "none", 0, ran)
        /\ hups' = IF BitAnd(condition, IO_HUP) # 0 THEN hups \cup {key} ELSE hups
  /\ UNCHANGED <<schedVars, fd_to_key, sources, io_channels, fileobj_preserve,
                 watches, tsVars>>

\* select reporting both events for every key of _hups.
SelectMaskAll(key) == BitOr(EVENT_READ, EVENT_WRITE)

\* select: the mask reported for a key of _hups.
SelectMask(key) == BitAnd(key.events, BitOr(EVENT_READ, EVENT_WRITE))

\* select: the list it returns, one (key, mask) for every key of _hups.
SelectReady == {[key |-> k, mask |-> SelectMask(k)] : k \in hups}

\* GAsyncIOSelector.select
Select ==
  /\ sel_call' = SelResult("select", "none", 0, SelectReady)
  /\ hups' = {}
  /\ UNCHANGED <<schedVars, fd_to_key, sources, io_channels, fileobj_preserve,
                 watches, tsVars>>

\* ------------------------------------------------------------ poll

\* What select() of the loop's selector returns to _run_once. The two
\* select.select based classes find no descriptor ready here: their
\* descriptors are not part of the model of the scheduler.
SelectedEvents ==
  IF selector = "GAsyncIOSelector"
    THEN SelectReady
    ELSE {}

\* BaseSelectorEventLoop._process_events: the handles passed to _add_callback,
\* the reader of every event with EVENT_READ and the writer of every event
\* with EVENT_WRITE.
ProcessEvents(event_list) ==
  {<<e.key, "reader">> : e \in {x \in event_list : BitAnd(x.mask, EVENT_READ) # 0}}
    \cup {<<e.key, "writer">> : e \in {x \in event_list : BitAnd(x.mask, EVENT_WRITE) # 0}}

\* GLib dispatches the drain source s: _giterate starts and enters _run_once,
\* which calls select, passes the events to _process_events (_add_callback
\* appends and calls _schedule_giteration) and reads len(_ready). On a closed
\* loop self._selector is None and _run_once raises; the callback fails and
\* the source is destroyed.
GiterateDispatch(s) ==
  /\ hpc = "idle"
  /\ gsources[s].cb = "giterate"
  /\ IF selector = "None"
       THEN /\ gsources' = [gsources EXCEPT ![s] = NoSrc]
            /\ UNCHANGED <<giteration, ready, hpc, ntodo, cur, hups, sel_call>>
       ELSE LET n == Cardinality(ProcessEvents(SelectedEvents)) IN
            /\ ready + n <= MaxReady
            /\ IF selector = "GAsyncIOSelector"
                 THEN /\ sel_call' = SelResult("select", "none", 0, SelectedEvents)
                      /\ hups' = {}
                 ELSE UNCHANGED <<hups, sel_call>>
            /\ ready' = ready + n
            /\ IF n > 0
                 THEN /\ giteration = None => HasFreshId
                      /\ ScheduleGiteration
                 ELSE UNCHANGED <<giteration, gsources>>
            /\ hpc' = "run_once"
            /\ ntodo' = ready + n
            /\ cur' = s
  /\ UNCHANGED <<is_slave, running_loop, agen_hooks, old_agen_hooks, closed,
                 selector, curTimer, tpc, ruc, timers, call, fd_to_key,
                 sources, io_channels, fileobj_preserve, watches, tsVars>>

\* ------------------------------------------------------------ ThreadSelector

\* threadselector.py imports socket, select, selectors, asyncio and threading;
\* the name errno that _run_select reads is not among them.
ErrnoImported == FALSE

\* The OS errors select.select can raise in the thread: "descriptor is not a
\* socket" (errno.EBADF, WSAENOTSOCK on Windows) and any other.
OSErrors == {"EBADF", "EIO"}

\* The ThreadSelector's fields, as a value the methods below transform, with
\* what the running call has done so far.
TsState ==
  [closed |-> ts_closed, thread |-> ts_thread, loop |-> ts_loop,
   wakers |-> ts_wakers, woken |-> ts_woken, keys |-> ts_keys,
   waker_reg |-> ts_waker_reg, sel |-> ts_sel,
   err |-> "none", spawned |-> FALSE, sent |-> FALSE, join |-> FALSE]

\* self._waker_w.send(b"W"): a socket that was closed raises OSError.
TsSend(st) ==
  IF st.wakers = "open"
    THEN [st EXCEPT !.woken = TRUE, !.sent = TRUE]
    ELSE [st EXCEPT !.err = "OSError"]

\* create_thread, called by _wake_selector under a running loop: a new socket
\* pair, the thread started, and loop.add_reader(self._waker_r, ...), which
\* registers the waker and so calls _wake_selector again. The new thread
\* races with add_reader: with "early" it has tested _closed and entered its
\* first select.select before the waker is registered.
TsCreateThread(st, early) ==
  LET started ==
        [st EXCEPT !.wakers = "open", !.woken = FALSE, !.spawned = TRUE,
                   !.thread = IF ~early THEN "test"
                              ELSE IF st.closed THEN "returned" ELSE "select",
                   !.sel = IF early /\ ~st.closed
                             THEN [waker |-> FALSE, fds |-> st.keys # {}]
                             ELSE st.sel]
  IN IF closed
       THEN [started EXCEPT !.err = "RuntimeError"]
       ELSE TsSend([started EXCEPT !.waker_reg = TRUE])

\* _wake_selector
TsWakeSelector(st, early) ==
  IF running_loop = "none"
    THEN st
    ELSE IF st.thread = "None"
      THEN LET c == TsCreateThread([st EXCEPT !.loop = "self"], early) IN
             IF c.err # "none" THEN c ELSE TsSend(c)
      ELSE TsSend(st)

\* ThreadSelector.register
TsRegisterOn(st, fd, early) ==
  IF fd \in st.keys
    THEN [st EXCEPT !.err = "KeyError"]
    ELSE TsWakeSelector([st EXCEPT !.keys = st.keys \cup {fd}], early)

\* ThreadSelector.unregister
TsUnregisterOn(st, fd, early) ==
  IF fd \notin st.keys
    THEN [st EXCEPT !.err = "KeyError"]
    ELSE TsWakeSelector([st EXCEPT !.keys = st.keys \ {fd}], early)

\* ThreadSelector.close up to self._thread.join()
TsCloseOn(st) ==
  IF st.closed
    THEN st
    ELSE LET a == [st EXCEPT !.closed = TRUE] IN
      IF a.thread = "None"
        THEN a
        ELSE LET w == TsWakeSelector(a, FALSE) IN
               IF w.err # "none" THEN w ELSE [w EXCEPT !.join = TRUE]

\* What a call leaves in the ThreadSelector's fields.
TsStored(st, op) ==
  /\ ts_closed' = st.closed
  /\ ts_thread' = st.thread
  /\ ts_loop' = st.loop
  /\ ts_wakers' = st.wakers
  /\ ts_woken' = st.woken
  /\ ts_keys' = st.keys
  /\ ts_waker_reg' = st.waker_reg
  /\ ts_sel' = st.sel
  /\ ts_call' = TsResult(op, st.err, st.spawned, st.sent, FALSE, FALSE)

\* selector.register(fd, events, data) on the host thread
TsRegister(fd, early) ==
  /\ ts_main = "idle"
  /\ TsStored(TsRegisterOn(TsState, fd, early), "register")
  /\ UNCHANGED <<schedVars, selVars, ts_io, ts_posted, ts_err, ts_stale,
                 ts_main>>

\* selector.unregister(fd) on the host thread
TsUnregister(fd, early) ==
  /\ ts_main = "idle"
  /\ TsStored(TsUnregisterOn(TsState, fd, early), "unregister")
  /\ UNCHANGED <<schedVars, selVars, ts_io, ts_posted, ts_err, ts_stale,
                 ts_main>>

\* selector.close() on the host thread, up to its return or to the join.
TsClose ==
  /\ ts_main = "idle"
  /\ LET st == TsCloseOn(TsState) IN
       /\ TsStored(st, "close")
       /\ ts_main' = IF st.join THEN "join" ELSE "idle"
  /\ UNCHANGED <<schedVars, selVars, ts_io, ts_posted, ts_err, ts_stale>>

\* join() that returns without waiting for the thread.
TsJoinReturnsAtOnce == TRUE

\* self._thread.join() returns once the thread has left _run_select.
TsJoinReturns == ts_thread \in {"returned", "raised"}

\* close after the join: loop.remove_reader(self._waker_r), which does nothing
\* on a closed loop and otherwise unregisters the waker (a _wake_selector
\* again), then both sockets are closed. A close that the loop's close
\* called returns there, to "self._selector = None".
TsCloseJoin ==
  /\ ts_main \in {"join", "loop_join"}
  /\ TsJoinReturns
  /\ LET removed == IF closed \/ ~ts_waker_reg
                      THEN TsState
                      ELSE TsWakeSelector([TsState EXCEPT !.waker_reg = FALSE], FALSE)
     IN /\ ts_waker_reg' = removed.waker_reg
        /\ ts_woken' = removed.woken
        /\ ts_wakers' = "closed"
        /\ ts_stale' = (ts_stale \/ (ts_thread = "select" /\ ts_sel.waker))
        /\ ts_call' = TsResult("close", removed.err, FALSE, ts_call.sent, TRUE, TRUE)
  /\ ts_main' = "idle"
  /\ selector' = IF ts_main = "loop_join" THEN "None" ELSE selector
  /\ UNCHANGED <<is_slave, running_loop, agen_hooks, old_agen_hooks, closed,
                 giteration, gsources, ready, hpc, ntodo, cur, curTimer, tpc,
                 ruc, timers, call, selVars, ts_closed, ts_thread, ts_loop,
                 ts_keys, ts_sel, ts_io, ts_posted, ts_err>>

\* _run_select: "while not self._closed", then the call of select.select with
\* the descriptors registered at that moment.
TsThreadTest ==
  /\ ts_thread = "test"
  /\ IF ts_closed
       THEN /\ ts_thread' = "returned"
            /\ UNCHANGED <<ts_sel, ts_stale>>
       ELSE /\ ts_thread' = "select"
            /\ ts_sel' = [waker |-> ts_waker_reg, fds |-> ts_keys # {}]
            /\ ts_stale' = (ts_stale \/ (ts_waker_reg /\ ts_wakers = "closed"))
  /\ UNCHANGED <<schedVars, selVars, ts_closed, ts_loop, ts_wakers, ts_woken,
                 ts_keys, ts_waker_reg, ts_io, ts_posted, ts_err, ts_main,
                 ts_call>>

\* What the thread's select.select call finds readable.
TsReadable ==
  (IF ts_sel.waker /\ ts_woken THEN {"waker"} ELSE {})
    \cup (IF ts_sel.fds /\ ts_io THEN {"io"} ELSE {})

\* select.select returns and the thread passes the result to
\* call_soon_threadsafe, whose RuntimeError on a closed loop it swallows.
TsSelectReturn ==
  /\ ts_thread = "select"
  /\ TsReadable # {}
  /\ ts_posted' = IF closed THEN ts_posted ELSE ts_posted \cup TsReadable
  /\ ts_thread' = "test"
  /\ UNCHANGED <<schedVars, selVars, ts_closed, ts_loop, ts_wakers, ts_woken,
                 ts_keys, ts_waker_reg, ts_sel, ts_io, ts_err, ts_stale,
                 ts_main, ts_call>>

\* The exception that leaves the "except OSError as e" block for errno e, or
\* "none" when the block falls through to call_soon_threadsafe: reading the
\* name errno raises NameError when the module has not imported it.
TsSelectExcept(e) ==
  IF ~ErrnoImported
    THEN "NameError"
    ELSE IF e = "EBADF" /\ ts_woken THEN "none" ELSE "OSError"

\* select.select raises OSError with errno e in the thread.
TsSelectError(e) ==
  /\ ts_thread = "select"
  /\ ts_err' = [errno |-> e, raised |-> TsSelectExcept(e)]
  /\ IF TsSelectExcept(e) = "none"
       THEN /\ ts_posted' = IF closed THEN ts_posted ELSE ts_posted \cup {"waker"}
            /\ ts_thread' = "test"
       ELSE /\ ts_thread' = "raised"
            /\ UNCHANGED ts_posted
  /\ UNCHANGED <<schedVars, selVars, ts_closed, ts_loop, ts_wakers, ts_woken,
                 ts_keys, ts_waker_reg, ts_sel, ts_io, ts_stale, ts_main,
                 ts_call>>

\* The loop runs the queued _handle_select calls and the reader callbacks they
\* report: _consume_waker empties the waker socket, the users' callbacks read
\* their descriptors.
TsHandleSelect ==
  /\ ts_main = "idle"
  /\ ts_posted # {}
  /\ ts_posted' = {}
  /\ ts_woken' = IF /\ "waker" \in ts_posted
                    /\ ts_waker_reg
                    /\ ts_thread # "None"
                    /\ ts_wakers = "open"
                  THEN FALSE
                  ELSE ts_woken
  /\ ts_io' = IF "io" \in ts_posted THEN FALSE ELSE ts_io
  /\ UNCHANGED <<schedVars, selVars, ts_closed, ts_thread, ts_loop, ts_wakers,
                 ts_keys, ts_waker_reg, ts_sel, ts_err, ts_stale, ts_main,
                 ts_call>>

\* A registered descriptor of a user becomes ready.
TsIoReady ==
  /\ ts_keys # {}
  /\ ~ts_io
  /\ ts_io' = TRUE
  /\ UNCHANGED <<schedVars, selVars, ts_closed, ts_thread, ts_loop, ts_wakers,
                 ts_woken, ts_keys, ts_waker_reg, ts_sel, ts_posted, ts_err,
                 ts_stale, ts_main, ts_call>>

\* ------------------------------------------------------------ close

\* GAsyncIOEventLoop.close: the drain source is removed first, then the base
\* classes' close runs, which refuses a running loop and is a no-op on a
\* closed one; otherwise it marks the loop closed, clears _ready, calls
\* self._selector.close() and sets self._selector to None. With a
\* ThreadSelector whose thread was started the host thread is then inside
\* join(), and TsCloseJoin is the rest of the call.
Close ==
  /\ HostCanCall
  /\ gsources' = IF giteration # None THEN SourceRemoved(gsources, giteration)
                                      ELSE gsources
  /\ giteration' = None
  /\ IF IsRunning
       THEN /\ call' = Result("close", "RuntimeError")
            /\ UNCHANGED <<closed, ready, selector, tsVars>>
       ELSE IF closed
         THEN /\ call' = Result("close", "none")
              /\ UNCHANGED <<closed, ready, selector, tsVars>>
         ELSE /\ closed' = TRUE
              /\ ready' = 0
              /\ call' = Result("close", "none")
              /\ IF selector = "ThreadSelector"
                   THEN LET st == TsCloseOn(TsState) IN
                          /\ TsStored(st, "close")
                          /\ ts_main' = IF st.join THEN "loop_join" ELSE "idle"
                          /\ selector' = IF st.join THEN selector ELSE "None"
                          /\ UNCHANGED <<ts_io, ts_posted, ts_err, ts_stale>>
                   ELSE /\ selector' = "None"
                        /\ UNCHANGED tsVars
  /\ UNCHANGED <<is_slave, running_loop, agen_hooks, old_agen_hooks, hpc,
                 ntodo, cur, curTimer, tpc, ruc, timers, selVars>>

\* ------------------------------------------------------------ specification

SlaveOps == StartSlaveLoop \/ StopSlaveLoop

ThreadSteps == ThreadCheckClosed \/ ThreadAppend \/ ThreadSchedule

DrainSteps ==
  \/ \E s \in Ids : GiterateDispatch(s)
  \/ RunOncePop
  \/ HandleReturn
  \/ GiterateTest
  \/ GiterateFinish

TimerOps ==
  \/ \E t \in Timers : CallAt(t)
  \/ \E t \in Timers : CancelTimer(t)
  \/ \E s \in Ids : TimeoutCbDispatch(s)
  \/ TimeoutCbReturn

RucSteps ==
  \/ RunUntilComplete
  \/ TaskDone
  \/ RunUntilCompleteCb
  \/ RunUntilCompleteReturn

\* The whole scheduler.
Next ==
  SlaveOps \/ CallSoon \/ ThreadSteps \/ DrainSteps \/ Close \/ TimerOps \/ RucSteps

Spec == Init /\ [][Next]_vars

\* The wake-up protocol alone: submissions from both threads and the drain
\* callback.
NextWake == CallSoon \/ ThreadSteps \/ DrainSteps

SpecWake == Init /\ [][NextWake]_vars

\* The drain source under every operation that reads or writes _giteration.
NextDrain == CallSoon \/ ThreadSteps \/ DrainSteps \/ SlaveOps \/ Close

SpecDrain == Init /\ [][NextDrain]_vars

\* Slave mode, close and run_until_complete on the host thread.
NextSlave == SlaveOps \/ Close \/ CallSoon \/ DrainSteps \/ RucSteps

SpecSlave == Init /\ [][NextSlave]_vars

\* The GLib timers of call_at with close and the drain callback.
NextTimer == TimerOps \/ Close \/ CallSoon \/ DrainSteps

SpecTimer == Init /\ [][NextTimer]_vars

\* The native-watch selector of a scheduler on a platform that has it.
InitSel == Init /\ selector = "GAsyncIOSelector"

\* Registration: register, unregister and modify in any order.
NextReg ==
  \/ \E fd \in Fds, events \in Masks, data \in DataIds : Register(fd, events, data)
  \/ \E fd \in Fds : Unregister(fd)
  \/ \E fd \in Fds, events \in Masks, data \in DataIds : Modify(fd, events, data)

SpecReg == InitSel /\ [][NextReg]_vars

\* Hangups: registration with every mask, the watch callback and select. The
\* keys that reach _hups differ in descriptor and mask; the data is the same
\* in all of them.
NextHup ==
  \/ \E fd \in 1..MaxHupFds, events \in Masks : Register(fd, events, 1)
  \/ \E fd \in 1..MaxHupFds : Unregister(fd)
  \/ \E fd \in 1..MaxHupFds, events \in Masks : Modify(fd, events, 1)
  \/ \E w \in WatchIds : \E condition \in FiredConditions(w) : ChannelWatchCb(w, condition)
  \/ Select

SpecHup == InitSel /\ [][NextHup]_vars

\* Readiness: descriptors registered and modified with every mask and
\* every pair of handles, and the watch callback for readable and writable.
NextData ==
  \/ \E fd \in Fds, events \in Masks, data \in HandleIds :
       Register(fd, events, data)
  \/ \E fd \in Fds : Unregister(fd)
  \/ \E fd \in Fds, events \in Masks, data \in HandleIds :
       Modify(fd, events, data)
  \/ \E w \in WatchIds :
       \E condition \in {c \in FiredConditions(w) : BitAnd(c, IO_HUP) = 0} :
         ChannelWatchCb(w, condition)

SpecData == InitSel /\ [][NextData]_vars

\* A scheduler with a ThreadSelector: the host thread enters and leaves slave
\* mode, registers and unregisters descriptors, closes the selector, directly
\* or through the loop's close, and runs the calls the thread queued; the
\* selector's thread and the descriptors run beside it.
NextThread ==
  \/ StartSlaveLoop
  \/ StopSlaveLoop
  \/ Close
  \/ \E fd \in 1..MaxHupFds, early \in BOOLEAN : TsRegister(fd, early)
  \/ \E fd \in 1..MaxHupFds, early \in BOOLEAN : TsUnregister(fd, early)
  \/ TsClose
  \/ TsCloseJoin
  \/ TsHandleSelect
  \/ TsThreadTest
  \/ TsSelectReturn
  \/ \E e \in OSErrors : TsSelectError(e)
  \/ TsIoReady

InitThread == Init /\ selector = "ThreadSelector"

SpecThread == InitThread /\ [][NextThread]_vars

\* Polling: descriptors registered for reading with their watch callbacks,
\* submissions on the host thread and the drain callback, whose _run_once is
\* the only caller of select. The host loop dispatches one callback at a
\* time. A submission leaves room in the bounded ready queue for the handles
\* that a select can add, so that the bound never holds back a drain pass.
WatchDispatch ==
  /\ hpc = "idle"
  /\ \E w \in WatchIds : \E condition \in FiredConditions(w) : ChannelWatchCb(w, condition)

PollCallSoon == ready + MaxHupFds < MaxReady /\ CallSoon

NextPoll ==
  \/ \E fd \in 1..MaxHupFds : Register(fd, EVENT_READ, 1)
  \/ \E fd \in 1..MaxHupFds : Unregister(fd)
  \/ WatchDispatch
  \/ PollCallSoon
  \/ DrainSteps

\* The host loop keeps dispatching: a drain step or a watch callback that
\* can run does run.
SpecPoll == InitSel /\ [][NextPoll]_vars /\ WF_vars(DrainSteps) /\ WF_vars(WatchDispatch)

\* ------------------------------------------------------------ claims

\* C1: in every reachable state at most one drain source (a source whose
\* callback is _giterate) is attached to the host loop, whatever the
\* interleaving of _schedule_giteration calls from both threads, drain
\* callbacks and close().
C1_AtMostOneDrainSource == Cardinality(DrainSources) <= 1

\* C2: no ready work is stuck: whenever the host thread is between dispatches,
\* the loop is open, no submission is half-way through _call_soon and the
\* ready queue is non-empty, a drain source is attached to the host loop.
C2_ReadyWorkHasDrainPending ==
  (hpc = "idle" /\ tpc # "appended" /\ ~closed /\ ready > 0) => DrainSources # {}

\* C3 (as claimed): while the scheduler is the current running instance of
\* slave mode (start_slave_loop succeeded, stop_slave_loop not yet called),
\* is_running() reports false.
C3_SlaveReportsNotRunning == running_loop = "self" => ~IsRunning

\* C4: start_slave_loop on a scheduler that is in slave mode or closed raises,
\* stop_slave_loop on a scheduler that is not in slave mode raises, and a
\* failing call leaves _is_slave and the running-loop marker as they were.
C4_SlaveProtocolFailsFast ==
  [][ /\ (StartSlaveLoop /\ (is_slave \/ closed))
           => /\ call' = Result("start_slave_loop", "RuntimeError")
              /\ UNCHANGED <<is_slave, running_loop>>
      /\ (StopSlaveLoop /\ ~is_slave)
           => /\ call' = Result("stop_slave_loop", "RuntimeError")
              /\ UNCHANGED <<is_slave, running_loop>>
    ]_vars

\* C4 witness: a second start_slave_loop has just failed on a scheduler that
\* is still in slave mode and still the running instance.
C4_Witness ==
  /\ call = Result("start_slave_loop", "RuntimeError")
  /\ is_slave
  /\ running_loop = "self"
  /\ ~closed

\* The watches attached to the host loop for a descriptor.
WatchesOf(fd) == {w \in WatchIds : watches[w] # NoWatch /\ watches[w].key.fd = fd}

\* C5: in every reachable state register on a descriptor that is registered
\* raises the duplicate-registration KeyError and leaves the registration
\* keys, the watch ids, the channel wrappers and the attached watches as they
\* are; and a descriptor has at most one attached watch.
C5_DuplicateRegisterFails ==
  /\ \A fd \in Fds : Cardinality(WatchesOf(fd)) <= 1
  /\ \A fd \in Fds, events \in Masks, data \in DataIds :
       fd_to_key[fd] # NoKey =>
         LET st == RegisterOn(SelState, fd, events, data) IN
           /\ st.err = "KeyError: already registered"
           /\ st.fd_to_key = fd_to_key
           /\ st.sources = sources
           /\ st.io_channels = io_channels
           /\ st.watches = watches

\* C5 witness: a register call has just failed as a duplicate, and the
\* descriptors that are registered each have their one watch, installed with
\* their key on their wrapper.
C5_Witness ==
  /\ sel_call.op = "register"
  /\ sel_call.err = "KeyError: already registered"
  /\ \E fd \in Fds : fd_to_key[fd] # NoKey
  /\ \A fd \in Fds :
       fd_to_key[fd] # NoKey
         => /\ WatchesOf(fd) = {sources[fd]}
            /\ watches[sources[fd]].key = fd_to_key[fd]
            /\ watches[sources[fd]].channel = io_channels[fd]

\* C6: in every reachable state modify on a registered descriptor returns
\* without creating a channel wrapper, leaves the descriptor's wrapper in
\* _io_channels the one it is, and leaves the descriptor's watch installed on
\* that wrapper for the new mask plus hangup.
C6_ModifyKeepsWrapper ==
  \A fd \in Fds, events \in Masks, data \in DataIds :
    fd_to_key[fd] # NoKey =>
      LET st == ModifyOn(fd, events, data) IN
        /\ st.err = "none"
        /\ st.made = 0
        /\ io_channels[fd] # None
        /\ st.io_channels[fd] = io_channels[fd]
        /\ st.sources[fd] \in WatchIds
        /\ st.watches[st.sources[fd]].channel = io_channels[fd]
        /\ st.watches[st.sources[fd]].condition = BitOr(EventsToIoCondition(events), IO_HUP)

\* C6 witness: modify has just returned on a descriptor that is registered for
\* WRITE only, with no wrapper created, its watch asking for OUT and HUP on the
\* descriptor's wrapper.
C6_Witness ==
  /\ sel_call.op = "modify"
  /\ sel_call.err = "none"
  /\ sel_call.made = 0
  /\ \E fd \in Fds :
       /\ fd_to_key[fd] # NoKey
       /\ fd_to_key[fd].events = EVENT_WRITE
       /\ io_channels[fd] # None
       /\ sources[fd] \in WatchIds
       /\ watches[sources[fd]].channel = io_channels[fd]
       /\ watches[sources[fd]].condition = IO_OUT + IO_HUP

\* C7: every (key, mask) pair select returns has a mask within the events of
\* its key, the mask the watch that recorded the hangup was registered with: a
\* READ-only key comes with READ, a WRITE-only key with WRITE.
C7_SelectMaskWithinEvents ==
  sel_call.op = "select" =>
    \A p \in sel_call.ret :
      /\ BitAnd(p.mask, p.key.events) = p.mask
      /\ p.key.events = EVENT_READ => p.mask = EVENT_READ
      /\ p.key.events = EVENT_WRITE => p.mask = EVENT_WRITE

\* C7 witness: select has just returned the hangup of a READ-only
\* registration as (key, READ).
C7_Witness ==
  /\ sel_call.op = "select"
  /\ \E p \in sel_call.ret : p.key.events = EVENT_READ /\ p.mask = EVENT_READ

\* C8: for every TimerHandle, under any interleaving of its fire callback and
\* cancel(): timer._run() is started at most once and never on a cancelled
\* handle; _timer_handle_cancelled calls source_remove at most once, only with
\* the id set and never once _timeout_cb has completed; after the fire or the
\* cancellation the id field is cleared.
C8_TimerFireCancel ==
  \A t \in Timers :
    /\ timers[t].runs <= 1
    /\ ~timers[t].ranCancelled
    /\ timers[t].removes <= 1
    /\ ~timers[t].badRemove
    /\ ~timers[t].lateRemove
    /\ (timers[t].fired \/ timers[t].cancelled) => timers[t].scheduled = None

\* C8 witness: a timer that fired once and was cancelled afterwards, without
\* any source_remove call.
C8_Witness ==
  \E t \in Timers :
    /\ timers[t].fired
    /\ timers[t].cancelled
    /\ timers[t].runs = 1
    /\ timers[t].removes = 0

\* C9 (as claimed): once close() has closed the scheduler, none of its
\* sources, drain or timer, is attached to the host loop.
C9_NoSourceAfterClose == closed => (DrainSources \cup TimerSources) = {}

\* C10 (as claimed): a scheduler is never in slave mode and inside
\* run_until_complete at once.
C10_SlaveExcludesRunUntilComplete == ~(is_slave /\ ruc # "no")

\* C11: call_at hands GLib.timeout_add the delay max(0, (when - now) * 1000),
\* which is never negative, also for a deadline that is not after now; and
\* timer._run() of a handle starts only when the host loop, between
\* dispatches, dispatches the source of that handle: never in the step that
\* creates the handle.
C11_CallAtDelayClamped ==
  /\ [](call.op = "call_at" /\ call.err = "none"
          => /\ call.delay >= 0
             /\ call.delay >= (call.when - call.now) * 1000
             /\ call.delay \in {0, (call.when - call.now) * 1000})
  /\ [][\A t \in Timers :
          timers'[t].runs # timers[t].runs
            => /\ timers[t].created
               /\ hpc = "idle"
               /\ hpc' = "timer_cb"
               /\ gsources[cur'] = TimeoutSrc(t)
       ]_vars

\* C11 witness: call_at returned for a deadline before the clock reading and
\* gave GLib the delay 0; the handle it made has its source attached and has
\* not run.
C11_Witness ==
  /\ call.op = "call_at"
  /\ call.err = "none"
  /\ call.when < call.now
  /\ call.delay = 0
  /\ \E t \in Timers :
       /\ timers[t].created
       /\ timers[t].runs = 0
       /\ timers[t].scheduled \in Ids
       /\ gsources[timers[t].scheduled] = TimeoutSrc(t)

\* The selector's thread has left _run_select, by return or by an exception.
ThreadExited == ts_thread \in {"returned", "raised"}

\* C12: ThreadSelector.close is idempotent and ordered. The socket pair is
\* closed only when the thread has exited, and the thread never enters
\* select.select on a closed waker socket; a close that finds the thread
\* started goes through join(), during which the sockets are still open, and
\* has returned from it only when the thread has exited; and close() on a
\* selector that is already closed changes no field, sends no wake-up and
\* joins nothing.
C12_CloseOrderedAndIdempotent ==
  /\ ts_wakers = "closed" => ThreadExited
  /\ ~ts_stale
  /\ ~ts_closed /\ ts_thread # "None" => TsCloseOn(TsState).join
  /\ ts_main \in {"join", "loop_join"} => ts_closed /\ ts_wakers = "open"
  /\ ts_call.op = "close" /\ ts_call.joined => ThreadExited /\ ts_call.released
  /\ ts_closed => TsCloseOn(TsState) = TsState

\* C12 witness: close() woke the thread, joined it and released the socket
\* pair after the thread returned from _run_select.
C12_Witness ==
  /\ ts_call.op = "close"
  /\ ts_call.sent
  /\ ts_call.joined
  /\ ts_call.released
  /\ ts_main = "idle"
  /\ ts_closed
  /\ ts_thread = "returned"
  /\ ts_wakers = "closed"

\* C13 (as claimed): close() called while the thread is blocked in
\* select.select terminates: whenever the host thread is inside join() and
\* the thread is inside a select.select call that waits on the waker socket,
\* the wake-up byte of close() is there for it to read, whether or not a loop
\* was marked running when close() was called.
C13_CloseWakesBlockedThread ==
  ts_main \in {"join", "loop_join"} /\ ts_thread = "select" /\ ts_sel.waker
    => ts_woken

\* C14 (as claimed): once close() has returned, the selector has no live
\* thread and no open socket pair, and the last call, a register or
\* unregister after the close included, has started no thread.
C14_NoThreadAfterClose ==
  ts_closed /\ ts_main = "idle"
    => /\ ts_thread = "None" \/ ThreadExited
       /\ ts_wakers # "open"
       /\ ~ts_call.spawned

\* The step of _giterate that found the ready queue empty and returns False.
C15_DrainReturnsFalse == hpc = "tested" /\ hpc' = "idle"

\* The step of _giterate that found the ready queue non-empty and returns True.
C15_DrainReturnsTrue == hpc = "run_once" /\ ntodo = 0 /\ ready > 0 /\ hpc' = "idle"

\* The drain callback attached a new drain source and stored its id.
C15_Rearmed ==
  /\ giteration' \in Ids \ {cur}
  /\ gsources[giteration'] = NoSrc
  /\ gsources'[giteration'] = GiterateSrc
  /\ gsources'[cur] = NoSrc

\* The drain callback cleared the id and attached nothing.
C15_WentIdle ==
  /\ giteration' = None
  /\ \A i \in Ids : gsources'[i].cb = "giterate" => gsources[i].cb = "giterate" /\ i # cur

C16_NotSocketErrorIsSpurious ==
  ts_err.errno = "EBADF" => ts_err.raised = "none"

\* C17 (as claimed): between selector calls, modify included, no descriptor
\* is marked in _fileobj_preserve and the descriptors that own a channel
\* wrapper are exactly the registered descriptors, also after a modify that
\* raised.
C17_PreserveEmptyBetweenCalls ==
  /\ fileobj_preserve = {}
  /\ {fd \in Fds : io_channels[fd] # None} = {fd \in Fds : fd_to_key[fd] # NoKey}

\* C18 (as claimed): the handles a watch callback runs for a descriptor are
\* those of the data of the descriptor's current registration, the one the
\* last register or modify stored: after a modify, of either the mask or the
\* data alone, never those of the registration it replaced.
C18_CallbackRunsCurrentHandles ==
  sel_call.op = "channel_watch_cb"
    => \A h \in sel_call.ret :
         /\ fd_to_key[h.fd] # NoKey
         /\ fd_to_key[h.fd].data = h.data

\* C19 (as claimed): every hangup that select() returns is for a key that is
\* the current registration of its descriptor: once unregister(fd) completed,
\* no later select() reports a hangup of the registration it removed, also
\* when the hangup was recorded before the unregister and not yet drained.
C19_NoHangupAfterUnregister ==
  sel_call.op = "select"
    => \A p \in sel_call.ret : fd_to_key[p.key.fd] = p.key

\* The keys a hangup can be recorded for.
C20_Keys == {SelectorKey(fd, EVENT_READ, 1) : fd \in 1..MaxHupFds}

\* C20 (as claimed): while the host loop keeps dispatching, a hangup recorded
\* in _hups for a key whose descriptor stays registered is eventually
\* returned by select(), also when the condition was hangup alone and no
\* drain source was pending.
C20_HangupEventuallySelected ==
  \A k \in C20_Keys :
    (k \in hups /\ fd_to_key[k.fd] = k) ~> (k \notin hups \/ fd_to_key[k.fd] # k)

====
